---- MODULE Spec2Model ----
(***************************************************************************)
(* Model of inc/intfloatconversions.h (namespace LTC): conversions between *)
(* floating-point samples in [-1.0, 1.0] and fixed-point integer samples.  *)
(*                                                                         *)
(* An integer type I is a record [bits, signed]; its limits follow two's   *)
(* complement.  The type int that round_float truncates through is IntBits *)
(* wide, and the integer types range from narrower than int to wider than  *)
(* int, as int8_t .. int64_t do around a 32-bit int.  A floating-point     *)
(* value is an exact rational <<n, d>> in lowest terms with d > 0.  The    *)
(* inputs are dyadic rationals with few significant bits, so every product *)
(* and sum float_to_int, round_float and clip_float form is exactly        *)
(* representable in double: on these inputs the rational arithmetic is the *)
(* arithmetic of the code.  The quotients of int_to_float are kept exact,  *)
(* where double rounds them to 53 significant bits.                        *)
(* An operation with undefined behaviour (a floating value converted to an *)
(* integer type that cannot represent its truncation, an int sum that      *)
(* overflows) may produce what builds produce for it: the destination's    *)
(* minimum (the "integer indefinite" value of x86), a saturated result, or *)
(* the value wrapped into the destination.  A function is modelled by the  *)
(* set of values it may return.                                            *)
(***************************************************************************)
EXTENDS Integers, Sequences, FiniteSets, TLC

(* ------------------------------ bounds -------------------------------- *)

\* Narrowest and widest integer type of the model (bits).
MinBits == 2
MaxBits == 5
\* Width of int (bits), between MinBits and MaxBits.
IntBits == 4
\* Floating-point inputs are k / 2^FracBits.
FracBits == 4
\* Floating-point inputs lie in [-FloatSpan, FloatSpan].
FloatSpan == 3
\* Longest sequence handed to a bulk conversion.
MaxLen == 2
\* Bulk floating-point inputs are k / 2^BulkFracBits in [-1, 1].
BulkFracBits == 1

(* --------------------------- exact rationals --------------------------- *)

RECURSIVE Pow2(_)
Pow2(n) == IF n = 0 THEN 1 ELSE 2 * Pow2(n - 1)

Abs(n) == IF n < 0 THEN -n ELSE n

RECURSIVE GCD(_, _)
GCD(a, b) == IF b = 0 THEN a ELSE GCD(b, a % b)

\* The rational n/d (d # 0) in lowest terms with a positive denominator.
Rat(n, d) ==
    LET g == GCD(Abs(n), Abs(d))
        s == IF d < 0 THEN -1 ELSE 1
    IN  << (s * n) \div g, Abs(d) \div g >>

\* static_cast<F>(i) of an integer i.
ToF(i) == << i, 1 >>

RAdd(a, b) == Rat(a[1] * b[2] + b[1] * a[2], a[2] * b[2])
RNeg(a) == << -a[1], a[2] >>
RSub(a, b) == RAdd(a, RNeg(b))
RMul(a, b) == Rat(a[1] * b[1], a[2] * b[2])
RDiv(a, b) == Rat(a[1] * b[2], a[2] * b[1])
RLt(a, b) == a[1] * b[2] < b[1] * a[2]
RLe(a, b) == a[1] * b[2] <= b[1] * a[2]
RAbs(a) == << Abs(a[1]), a[2] >>

RZero == ToF(0)
ROne == ToF(1)
RHalf == Rat(1, 2)

\* static_cast<int>(value): conversion of a floating value to int truncates
\* toward zero.
Trunc(a) == IF a[1] >= 0 THEN a[1] \div a[2] ELSE -((-a[1]) \div a[2])

\* a % b of C++ on ints, b > 0: the remainder has the sign of a.
CRem(a, b) == IF a >= 0 THEN a % b ELSE -((-a) % b)

(* ---------------------------- integer types ---------------------------- *)

Types == [bits : MinBits..MaxBits, signed : BOOLEAN]

\* std::numeric_limits<I>::max() and ::min().
MaxOf(T) == IF T.signed THEN Pow2(T.bits - 1) - 1 ELSE Pow2(T.bits) - 1
MinOf(T) == IF T.signed THEN -Pow2(T.bits - 1) ELSE 0
ValuesOf(T) == MinOf(T)..MaxOf(T)

\* What an out-of-range result t may become in an integer type of the given
\* width with the limits lo and hi.
Undefined(t, lo, hi, bits) == {lo, hi, ((t - lo) % Pow2(bits)) + lo}

\* static_cast<I>(x) of a floating value x: the value truncated toward zero
\* when that is representable in I, undefined behaviour otherwise.  The
\* result is the set of possible outcomes.
static_cast_I(T, x) ==
    IF Trunc(x) \in ValuesOf(T) THEN {Trunc(x)}
    ELSE Undefined(Trunc(x), MinOf(T), MaxOf(T), T.bits)

\* The limits and the values of int.
IntMin == -Pow2(IntBits - 1)
IntMax == Pow2(IntBits - 1) - 1
IntValues == IntMin..IntMax

\* static_cast<int>(x) of a floating value x, as static_cast_I.
static_cast_int(x) ==
    IF Trunc(x) \in IntValues THEN {Trunc(x)}
    ELSE Undefined(Trunc(x), IntMin, IntMax, IntBits)

\* a + b on ints: the sum when int represents it, undefined behaviour
\* otherwise.
int_add(a, b) ==
    IF a + b \in IntValues THEN {a + b}
    ELSE Undefined(a + b, IntMin, IntMax, IntBits)

(* ---------------------------- the functions ---------------------------- *)

get_zero(T) == IF ~T.signed THEN (MaxOf(T) \div 2) + 1 ELSE 0

\* clip_float without its lower bound.
clip_float_upper_only(value) ==
    IF RLt(ROne, value) THEN ROne ELSE value

clip_float(value) ==
    IF RLt(ROne, value) THEN ROne
    ELSE IF RLt(value, RNeg(ROne)) THEN RNeg(ROne)
    ELSE value

\* The set of values round_float<T>(value) may return.
round_float(value) ==
    UNION { UNION {
        { ToF(r) : r \in int_add(truncated,
                        IF RLt(value, RZero) THEN -roundValue ELSE roundValue) } :
        roundValue \in
            LET remainder == RSub(value, ToF(truncated))
            IN  IF RLt(RHalf, remainder) THEN {1}
                ELSE IF remainder = RHalf
                THEN { IF CRem(next, 2) = 0 THEN 1 ELSE 0 :
                         next \in static_cast_int(RAdd(value, ROne)) }
                ELSE {0} } :
        truncated \in static_cast_int(value) }

\* static_cast<I>(round_float<F>(x)).
cast_rounded(T, x) == UNION { static_cast_I(T, r) : r \in round_float(x) }

\* float_to_int returning a literal 0 for 0.0.
float_to_int_literal_zero(T, value) ==
    IF value = RZero THEN {0}
    ELSE IF ~T.signed
    THEN IF RLt(value, RZero)
         THEN cast_rounded(T,
                  RAdd(ToF(get_zero(T)), RMul(value, ToF(get_zero(T)))))
         ELSE static_cast_I(T,
                  RAdd(RMul(value, ToF(get_zero(T) - 1)), ToF(get_zero(T))))
    ELSE IF RLt(value, RZero)
    THEN cast_rounded(T, RMul(RNeg(value), ToF(MinOf(T))))
    ELSE cast_rounded(T, RMul(value, ToF(MaxOf(T))))

\* The set of values float_to_int<F, I>(value) may return.
float_to_int(T, value) ==
    IF value = RZero THEN {get_zero(T)}
    ELSE IF ~T.signed
    THEN IF RLt(value, RZero)
         THEN cast_rounded(T,
                  RAdd(ToF(get_zero(T)), RMul(value, ToF(get_zero(T)))))
         ELSE static_cast_I(T,
                  RAdd(RMul(value, ToF(get_zero(T) - 1)), ToF(get_zero(T))))
    ELSE IF RLt(value, RZero)
    THEN cast_rounded(T, RMul(RNeg(value), ToF(MinOf(T))))
    ELSE cast_rounded(T, RMul(value, ToF(MaxOf(T))))

int_to_float(T, value) ==
    IF value = get_zero(T) THEN RZero
    ELSE IF ~T.signed
    THEN IF value < get_zero(T)
         THEN RDiv(ToF(value), ToF(get_zero(T) - 1))
         ELSE RDiv(ToF(value - get_zero(T)), ToF(get_zero(T)))
    ELSE IF value < 0
    THEN RMul(ToF(value), ToF(MaxOf(T)))
    ELSE RMul(ToF(value), ToF(MinOf(T)))

(* ------------------------- scalar calls: state ------------------------- *)

\* typ: the integer type I the conversions are instantiated with.
\* log: the calls a caller made so far, oldest first; a call is a record
\*      [fn, arg, ret] whose arg and ret are rationals (an integer i is
\*      logged as i/1; get_zero takes no argument and logs 0/1).
\* The remaining variables hold a bulk conversion in progress: form and dir
\* name the overload, values its input sequence, converted its output
\* sequence, length the number of elements to process, i the loop index and
\* pc the position in the overload ("idle", "loop" or "done").
VARIABLES typ, log, form, dir, values, converted, length, i, pc

vars == << typ, log, form, dir, values, converted, length, i, pc >>
bulkVars == << form, dir, values, converted, length, i, pc >>

\* A caller makes at most this many calls before starting over.
MaxCalls == 2

\* The floating-point inputs: k / 2^FracBits in [-FloatSpan, FloatSpan].
FloatInputs ==
    { Rat(k, Pow2(FracBits)) :
        k \in (-FloatSpan * Pow2(FracBits))..(FloatSpan * Pow2(FracBits)) }

\* The inputs inside the conversions' documented domain [-1.0, 1.0].
ClampedInputs ==
    { f \in FloatInputs : RLe(RNeg(ROne), f) /\ RLe(f, ROne) }

FloatFns == {"clip_float", "clip_float_ptr", "round_float", "int_to_float"}
IntFns == {"get_zero", "float_to_int"}

Last == log[Len(log)]

\* What a caller may pass as a floating-point argument: a fresh input on the
\* first call, the floating-point result of the previous call afterwards.
FloatArgs ==
    IF log = << >> THEN FloatInputs
    ELSE IF Last.fn \in FloatFns THEN {Last.ret} ELSE {}

\* A caller whose first call was float_to_int on a sample of the domain may
\* call it next on any second sample of the domain.
SampleArgs ==
    IF Len(log) = 1 /\ Last.fn = "float_to_int" /\ Last.arg \in ClampedInputs
    THEN ClampedInputs ELSE {}

\* What a caller may pass as an integer argument: any value of I on the
\* first call, the integer result of the previous call afterwards.
IntArgs ==
    IF log = << >> THEN ValuesOf(typ)
    ELSE IF Last.fn \in IntFns THEN {Last.ret[1]} ELSE {}

\* The log after a call of fn on arg that returned ret.
Logged(fn, arg, ret) == Append(log, [fn |-> fn, arg |-> arg, ret |-> ret])

(* ------------------------ scalar calls: actions ------------------------ *)

Call_get_zero ==
    /\ Len(log) < MaxCalls
    /\ log' = Logged("get_zero", RZero, ToF(get_zero(typ)))
    /\ UNCHANGED << typ, bulkVars >>

Call_clip_float ==
    /\ Len(log) < MaxCalls
    /\ \E value \in FloatArgs :
           log' = Logged("clip_float", value, clip_float(value))
    /\ UNCHANGED << typ, bulkVars >>

\* clip_float(T* value): *value = clip_float<T>(*value).
clip_float_ptr(value) == clip_float(value)

Call_clip_float_ptr ==
    /\ Len(log) < MaxCalls
    /\ \E value \in FloatArgs :
           log' = Logged("clip_float_ptr", value, clip_float_ptr(value))
    /\ UNCHANGED << typ, bulkVars >>

Call_round_float ==
    /\ Len(log) < MaxCalls
    /\ \E value \in FloatArgs : \E ret \in round_float(value) :
           log' = Logged("round_float", value, ret)
    /\ UNCHANGED << typ, bulkVars >>

Call_float_to_int ==
    /\ Len(log) < MaxCalls
    /\ \E value \in FloatArgs \cup SampleArgs :
           \E ret \in float_to_int(typ, value) :
               log' = Logged("float_to_int", value, ToF(ret))
    /\ UNCHANGED << typ, bulkVars >>

Call_int_to_float ==
    /\ Len(log) < MaxCalls
    /\ \E value \in IntArgs :
           log' = Logged("int_to_float", ToF(value), int_to_float(typ, value))
    /\ UNCHANGED << typ, bulkVars >>

\* The caller starts over.
Restart ==
    /\ log # << >>
    /\ log' = << >>
    /\ UNCHANGED << typ, bulkVars >>

Init ==
    /\ typ \in Types
    /\ log = << >>
    /\ form = "none"
    /\ dir = "none"
    /\ values = << >>
    /\ converted = << >>
    /\ length = 0
    /\ i = 0
    /\ pc = "idle"

Next ==
    \/ Call_get_zero
    \/ Call_clip_float
    \/ Call_clip_float_ptr
    \/ Call_round_float
    \/ Call_float_to_int
    \/ Call_int_to_float
    \/ Restart

Spec == Init /\ [][Next]_vars

(* --------------------------- bulk conversions -------------------------- *)

Dirs == {"float_to_int", "int_to_float"}

\* Bulk floating-point inputs: k / 2^BulkFracBits in [-1, 1].
BulkFloats ==
    { Rat(k, Pow2(BulkFracBits)) : k \in (-Pow2(BulkFracBits))..Pow2(BulkFracBits) }

\* Bulk integer inputs: the limits of I, the zero point and the value below it.
BulkInts(T) == {MinOf(T), get_zero(T) - 1, get_zero(T), MaxOf(T)}

\* The elements of a sequence are held as rationals, an integer i as i/1.
BulkInputs(d, T) ==
    IF d = "float_to_int" THEN BulkFloats ELSE { ToF(n) : n \in BulkInts(T) }

SeqsUpTo(S, n) == UNION { [1..m -> S] : m \in 0..n }

\* A buffer of n value-initialised elements (0 or 0.0).
Buffer(n) == [k \in 1..n |-> RZero]

\* The values the scalar conversion of direction d may return on value.
scalar(d, T, value) ==
    IF d = "float_to_int" THEN { ToF(r) : r \in float_to_int(T, value) }
    ELSE {int_to_float(T, value[1])}

\* The pointer form: *converted = float_to_int<F, I>(*value), and likewise
\* int_to_float.
scalar_ptr(d, T, value) == scalar(d, T, value)

\* (I* converted, F* value, int length): the caller passes two arrays of at
\* least length elements.
Call_ptr_len ==
    /\ pc = "idle"
    /\ \E d \in Dirs : \E vs \in SeqsUpTo(BulkInputs(d, typ), MaxLen) :
       \E n \in 0..Len(vs) :
           /\ dir' = d
           /\ values' = vs
           /\ converted' = Buffer(Len(vs))
           /\ length' = n
    /\ form' = "ptr_len"
    /\ i' = 0
    /\ pc' = "loop"
    /\ UNCHANGED << typ, log >>

\* (std::vector<F> values): length is values.size() and converted starts
\* empty.
Call_vec_ret ==
    /\ pc = "idle"
    /\ \E d \in Dirs : \E vs \in SeqsUpTo(BulkInputs(d, typ), MaxLen) :
           /\ dir' = d
           /\ values' = vs
           /\ converted' = << >>
           /\ length' = Len(vs)
    /\ form' = "vec_ret"
    /\ i' = 0
    /\ pc' = "loop"
    /\ UNCHANGED << typ, log >>

\* (std::vector<I>* converted, std::vector<F>* values): length is
\* values->size(); the caller passes a converted of that size.
Call_vec_inplace ==
    /\ pc = "idle"
    /\ \E d \in Dirs : \E vs \in SeqsUpTo(BulkInputs(d, typ), MaxLen) :
           /\ dir' = d
           /\ values' = vs
           /\ converted' = Buffer(Len(vs))
           /\ length' = Len(vs)
    /\ form' = "vec_inplace"
    /\ i' = 0
    /\ pc' = "loop"
    /\ UNCHANGED << typ, log >>

\* (std::vector<I>* converted, std::vector<F>* values, int length): the
\* caller passes two vectors of at least length elements.
Call_vec_inplace_len ==
    /\ pc = "idle"
    /\ \E d \in Dirs : \E vs \in SeqsUpTo(BulkInputs(d, typ), MaxLen) :
       \E n \in 0..Len(vs) :
           /\ dir' = d
           /\ values' = vs
           /\ converted' = Buffer(Len(vs))
           /\ length' = n
    /\ form' = "vec_inplace_len"
    /\ i' = 0
    /\ pc' = "loop"
    /\ UNCHANGED << typ, log >>

\* The loop stopping one element early.
LoopCond_short == i < length - 1

\* The condition of every overload's loop: for (int i(0); i < length; ++i).
LoopCond == i < length

\* Element i of a C++ array or vector is element i + 1 of a sequence.
Step_ptr_len ==
    /\ pc = "loop" /\ form = "ptr_len" /\ LoopCond
    /\ \E r \in scalar_ptr(dir, typ, values[i + 1]) :
           converted' = [converted EXCEPT ![i + 1] = r]
    /\ i' = i + 1
    /\ UNCHANGED << typ, log, form, dir, values, length, pc >>

Step_vec_ret ==
    /\ pc = "loop" /\ form = "vec_ret" /\ LoopCond
    /\ \E r \in scalar(dir, typ, values[i + 1]) :
           converted' = Append(converted, r)
    /\ i' = i + 1
    /\ UNCHANGED << typ, log, form, dir, values, length, pc >>

Step_vec_inplace ==
    /\ pc = "loop" /\ form = "vec_inplace" /\ LoopCond
    /\ \E r \in scalar_ptr(dir, typ, values[i + 1]) :
           converted' = [converted EXCEPT ![i + 1] = r]
    /\ i' = i + 1
    /\ UNCHANGED << typ, log, form, dir, values, length, pc >>

Step_vec_inplace_len ==
    /\ pc = "loop" /\ form = "vec_inplace_len" /\ LoopCond
    /\ \E r \in scalar_ptr(dir, typ, values[i + 1]) :
           converted' = [converted EXCEPT ![i + 1] = r]
    /\ i' = i + 1
    /\ UNCHANGED << typ, log, form, dir, values, length, pc >>

\* The loop condition fails and the overload returns.
Exit ==
    /\ pc = "loop" /\ ~LoopCond
    /\ pc' = "done"
    /\ UNCHANGED << typ, log, form, dir, values, converted, length, i >>

\* The caller has read the result and is free to call again.
Return ==
    /\ pc = "done"
    /\ form' = "none"
    /\ dir' = "none"
    /\ values' = << >>
    /\ converted' = << >>
    /\ length' = 0
    /\ i' = 0
    /\ pc' = "idle"
    /\ UNCHANGED << typ, log >>

BulkStep ==
    \/ Step_ptr_len
    \/ Step_vec_ret
    \/ Step_vec_inplace
    \/ Step_vec_inplace_len
    \/ Exit

BulkNext ==
    \/ Call_ptr_len
    \/ Call_vec_ret
    \/ Call_vec_inplace
    \/ Call_vec_inplace_len
    \/ BulkStep
    \/ Return

BulkSpec == Init /\ [][BulkNext]_vars

(* ------------------------------- claims ------------------------------- *)

Calls == 1..Len(log)
InUnitRange(f) == RLe(RNeg(ROne), f) /\ RLe(f, ROne)

\* Call k + 1 was made on the result of call k.
Chained(k) == k + 1 \in Calls /\ log[k + 1].arg = log[k].ret

\* The nearest integer of a rational, an exact .5 tie going to the even one.
RoundHalfEven(x) ==
    LET floor == x[1] \div x[2]
        frac == RSub(x, ToF(floor))
    IN  IF RLt(frac, RHalf) THEN floor
        ELSE IF RLt(RHalf, frac) THEN floor + 1
        ELSE IF floor % 2 = 0 THEN floor ELSE floor + 1

\* The zero point of an integer type as the specification defines it.
ZeroPoint(T) == IF T.signed THEN 0 ELSE (MaxOf(T) \div 2) + 1

\* C1: for every integer type, float_to_int(0.0) returns exactly the zero
\* point (0 for a signed type, (max_value / 2) + 1 for an unsigned one, which
\* is what get_zero returns) and int_to_float(zero point) returns exactly 0.0.
ZeroPointExact ==
    \A k \in Calls :
        /\ log[k].fn = "get_zero" => log[k].ret = ToF(ZeroPoint(typ))
        /\ (log[k].fn = "float_to_int" /\ log[k].arg = RZero)
               => log[k].ret = ToF(ZeroPoint(typ))
        /\ (log[k].fn = "int_to_float" /\ log[k].arg = ToF(ZeroPoint(typ)))
               => log[k].ret = RZero

\* An unsigned type: float_to_int(0.0) returned the zero point and
\* int_to_float of that result returned 0.0.
ZeroPointExactWitness ==
    /\ ~typ.signed
    /\ Len(log) = 2
    /\ log[1].fn = "float_to_int" /\ log[1].arg = RZero
    /\ log[1].ret = ToF(ZeroPoint(typ))
    /\ log[2].fn = "int_to_float" /\ log[2].arg = log[1].ret
    /\ log[2].ret = RZero

\* C2: for every integer type, float_to_int(1.0) is the type's maximum value
\* and float_to_int(-1.0) is its minimum value (0 for an unsigned type).
FullRangeEndpoints ==
    \A k \in Calls :
        log[k].fn = "float_to_int" =>
            /\ log[k].arg = ROne => log[k].ret = ToF(MaxOf(typ))
            /\ log[k].arg = RNeg(ROne) => log[k].ret = ToF(MinOf(typ))

\* C3: for every representable integer i of every integer type,
\* float_to_int(int_to_float(i)) = i.
IntRoundTripLossless ==
    \A k \in Calls :
        (log[k].fn = "int_to_float" /\ Chained(k)
            /\ log[k + 1].fn = "float_to_int")
        => log[k + 1].ret = log[k].arg

\* C4: for every representable integer of every integer type, int_to_float
\* returns a value in [-1.0, 1.0]; a negative value v of a signed type yields
\* v / |min_value|.
IntToFloatInUnitRange ==
    \A k \in Calls :
        log[k].fn = "int_to_float" =>
            /\ InUnitRange(log[k].ret)
            /\ (typ.signed /\ RLt(log[k].arg, RZero))
                   => log[k].ret = RDiv(log[k].arg, ToF(-MinOf(typ)))

\* C5: for every f in [-1.0, 1.0] and every integer type,
\* |int_to_float(float_to_int(f)) - f| <= 1 / range, range being the number
\* of integer steps the type spans.
FloatRoundTripWithinStep ==
    \A k \in Calls :
        (log[k].fn = "float_to_int" /\ InUnitRange(log[k].arg) /\ Chained(k)
            /\ log[k + 1].fn = "int_to_float")
        => RLe(RAbs(RSub(log[k + 1].ret, log[k].arg)),
               Rat(1, MaxOf(typ) - MinOf(typ)))

\* C6: for every integer type and every f1 < f2 in [-1.0, 1.0],
\* float_to_int(f1) <= float_to_int(f2).
FloatToIntMonotonic ==
    \A j, k \in Calls :
        (/\ log[j].fn = "float_to_int" /\ log[k].fn = "float_to_int"
         /\ InUnitRange(log[j].arg) /\ InUnitRange(log[k].arg)
         /\ RLt(log[j].arg, log[k].arg))
        => RLe(log[j].ret, log[k].ret)

\* C7: round_float returns the nearest integer of every input, positive or
\* negative, an exact .5 tie going to the nearest even integer.
RoundFloatHalfToEven ==
    \A k \in Calls :
        log[k].fn = "round_float"
            => log[k].ret = ToF(RoundHalfEven(log[k].arg))

\* C8: every bulk form of float_to_int and int_to_float terminates (each
\* step of a running overload moves the index one element closer to length,
\* or returns once the index is length), and when it has returned, output
\* element k is a result of the scalar conversion of input element k, for
\* every k below the processed length.
BulkElementwise ==
    /\ [](pc = "done" =>
            /\ Len(converted) >= length
            /\ form = "vec_ret" => Len(converted) = length
            /\ \A k \in 1..length :
                   converted[k] \in scalar(dir, typ, values[k]))
    /\ [](pc = "loop" => i \in 0..length)
    /\ [][pc = "loop" =>
            \/ pc' = "loop" /\ i' = i + 1
            \/ pc' = "done" /\ i = length]_vars

\* The vector-returning float_to_int has returned two different values for a
\* sequence of two samples.
BulkElementwiseWitness ==
    /\ pc = "done" /\ form = "vec_ret" /\ dir = "float_to_int"
    /\ length = 2 /\ Len(converted) = 2
    /\ converted[1] # converted[2]
    /\ \A k \in 1..2 : scalar(dir, typ, values[k]) = {converted[k]}

\* C9: clip_float, value-returning or in place, maps every value above 1.0
\* to 1.0, every value below -1.0 to -1.0 and every other value to itself;
\* its result is in [-1.0, 1.0] and clipping a clipped value changes nothing.
ClipFloatClamps ==
    \A k \in Calls :
        log[k].fn \in {"clip_float", "clip_float_ptr"} =>
            /\ RLt(ROne, log[k].arg) => log[k].ret = ROne
            /\ RLt(log[k].arg, RNeg(ROne)) => log[k].ret = RNeg(ROne)
            /\ InUnitRange(log[k].arg) => log[k].ret = log[k].arg
            /\ InUnitRange(log[k].ret)
            /\ (Chained(k) /\ log[k + 1].fn \in {"clip_float", "clip_float_ptr"})
                   => log[k + 1].ret = log[k].ret

\* clip_float brought a value below -1.0 to -1.0 and the in-place form left
\* that result alone.
ClipFloatClampsWitness ==
    /\ Len(log) = 2
    /\ log[1].fn = "clip_float" /\ RLt(log[1].arg, RNeg(ROne))
    /\ log[1].ret = RNeg(ROne)
    /\ log[2].fn = "clip_float_ptr" /\ log[2].arg = log[1].ret
    /\ log[2].ret = RNeg(ROne)

\* The exact scaled value float_to_int rounds for a non-zero f.
Scaled(T, f) ==
    IF ~T.signed
    THEN IF RLt(f, RZero)
         THEN RAdd(ToF(ZeroPoint(T)), RMul(f, ToF(ZeroPoint(T))))
         ELSE RAdd(RMul(f, ToF(ZeroPoint(T) - 1)), ToF(ZeroPoint(T)))
    ELSE IF RLt(f, RZero)
    THEN RMul(f, ToF(-MinOf(T)))
    ELSE RMul(f, ToF(MaxOf(T)))

\* C10: for every non-zero f in [-1.0, 1.0], float_to_int returns the
\* round-half-to-even nearest integer of the branch's exact scaled value, in
\* each of its four branches.
FloatToIntRoundsToNearest ==
    \A k \in Calls :
        (log[k].fn = "float_to_int" /\ InUnitRange(log[k].arg)
            /\ log[k].arg # RZero)
        => log[k].ret = ToF(RoundHalfEven(Scaled(typ, log[k].arg)))

====
